---- MODULE Spec2Model ----
(***************************************************************************)
(* Model of the Privacy Protection Module stream runner (src/src/ppm.cpp): *)
(* PPM::operator(), PPM::configure, PPM::BuildGeofence,                    *)
(* PPM::launch_consumer, PPM::launch_producer, PPM::topic_available,       *)
(* PPM::msg_consume and the signal handler PPM::sigterm.  The broker       *)
(* client library (librdkafka) and the BSM handler are external: their     *)
(* results are drawn nondeterministically from the outcomes their          *)
(* interfaces allow.  The shape factory and the quad are outside           *)
(* src/src/ppm.cpp and follow their description in spec.md.                *)
(***************************************************************************)
EXTENDS Integers, Sequences, FiniteSets, TLC

\* ------------------------------------------------------------------ bounds
\* largest number of real messages the broker hands out in one run
MaxMsgs == 2
\* largest message length (bytes)
MaxLen == 2
\* largest number of partitions of the consumed topic
MaxPartitions == 2
\* largest value of eof_cnt explored (the C++ int is not bounded this low)
MaxEof == 2
\* largest coordinate of a shape or of a bound of the geofence
MaxCoord == 1
\* largest number of lines of the map file
MaxRows == 3
\* side of the root bounds of the quad
QuadWidth == 2
\* largest number of shapes inserted into the quad
MaxShapes == 2
\* K_leaf and D_max of the quad, kept small (the policy values are 4 and 6)
K_leaf == 1
D_max == 2

\* ------------------------------------------------------- program constants
\* partition_cnt{1} in the constructor; never assigned anywhere else
PartitionCntInit == 1
EXIT_SUCCESS == 0
EXIT_FAILURE == 1
\* RdKafka::Topic::PARTITION_UA, OFFSET_BEGINNING, OFFSET_END, OFFSET_STORED
PARTITION_UA == -1
OFFSET_BEGINNING == -2
OFFSET_END == -1
OFFSET_STORED == -1000
\* RdKafka::Topic::OFFSET_INVALID: no offset named
OFFSET_INVALID == -1001
\* consumer_timeout{500} in the constructor
ConsumerTimeoutInit == 500

VARIABLES
    pc,              \* position of the runner thread in operator()
    bootstrap,       \* static bool PPM::bootstrap
    bsms_available,  \* static bool PPM::bsms_available
    exit_eof,        \* PPM::exit_eof
    eof_cnt,         \* PPM::eof_cnt
    partition_cnt,   \* PPM::partition_cnt
    bsm_recv_count, bsm_send_count, bsm_filt_count,
    bsm_recv_bytes, bsm_send_bytes, bsm_filt_bytes,
    consumer,        \* consumer shared_ptr is non-null
    producer,        \* producer shared_ptr is non-null
    filtered_topic,  \* filtered_topic shared_ptr is non-null
    msg,             \* the message held by the current inner-loop iteration
    exit_code,       \* value returned by operator(); -1 while running
    summary,         \* the three counter lines have been written
    opts,            \* command line, configuration file, environment, map file
    qptr,            \* PPM::qptr: the quad BuildGeofence returned
    conf_servers,    \* bootstrap.servers of PPM::conf, by the source that set it
    partition,       \* PPM::partition
    offset,          \* PPM::offset
    consumed_topic,  \* PPM::consumed_topic, by the source that set it
    published_topic, \* PPM::published_topic, by the source that set it
    consumer_timeout, \* PPM::consumer_timeout
    \* environment
    broker,          \* "up", or "down": unreachable or without the topic
    nparts,          \* number of partitions the consumed topic really has
    eof_parts,       \* partitions currently at their end in this period
    \* history (observation only)
    subscribed,      \* subscribe succeeded in the current bootstrap pass
    created,         \* objects created in the current bootstrap pass
    started,         \* start offsets the consumer was given, first subscribe first
    signalled,       \* sigterm has run at least once
    last_result,     \* kind of the last consume result
    consumed,        \* real messages returned by consume, in order
    produced,        \* produce calls made, in order, with their outcome
    produce_errors,  \* number of produce calls that returned an error
    lost_bytes,      \* sum of the lengths of the messages of those calls
    \* the quad with its nodes
    tree,            \* node path -> [leaf, entities]
    shapes,          \* the shapes insert was called with, in order
    probe            \* the last query_point: the point and what was found

counters == <<bsm_recv_count, bsm_send_count, bsm_filt_count,
              bsm_recv_bytes, bsm_send_bytes, bsm_filt_bytes>>

flags == <<bootstrap, bsms_available>>

eofstate == <<exit_eof, eof_cnt, partition_cnt>>

handles == <<consumer, producer, filtered_topic>>

env == <<broker, nparts>>

quadvars == <<tree, shapes, probe>>

settings == <<qptr, conf_servers, partition, offset, consumed_topic,
              published_topic, consumer_timeout>>

vars == <<pc, bootstrap, bsms_available, exit_eof, eof_cnt, partition_cnt,
          bsm_recv_count, bsm_send_count, bsm_filt_count,
          bsm_recv_bytes, bsm_send_bytes, bsm_filt_bytes,
          consumer, producer, filtered_topic, msg, exit_code, summary, opts,
          qptr, conf_servers, partition, offset, consumed_topic,
          published_topic, consumer_timeout,
          broker, nparts, eof_parts,
          subscribed, created, started, signalled, last_result,
          consumed, produced, produce_errors, lost_bytes,
          tree, shapes, probe>>

NoMsg == [err |-> "none", len |-> 0, verdict |-> "none"]

Partitions == 1..nparts

\* message lengths: the shortest and the longest
Lens == {1, MaxLen}

\* verdicts of BSMHandler::process: true only for "retain"
Verdicts == {"retain", "filter_reject", "parse_error"}

\* ------------------------------------------------------------ inputs
\* texts a numeric setting can hold: the numbers 0..MaxCoord, and a text
\* that is not a number
NumTexts == {ToString(i) : i \in 0..MaxCoord}

NotANumber == "abc"

\* a line of the map file: one shape at a place, or a malformed line
ShapeKinds == {"circle", "edge", "grid"}

MapRows ==
    [kind : ShapeKinds, at : 0..MaxCoord] \cup {[kind |-> "malformed", at |-> 0]}

MapFiles == UNION {[1..n -> MapRows] : n \in 0..MaxRows}

\* what configure() reads: the command line (c, m, b, p, o, x, u, f), the
\* configuration file (cfile: it opens; file_*: the keys it holds), the
\* environment (confluent: KAFKA_TYPE = CONFLUENT) and the map file (rows).
\* A missing option or key is "none".
ConfigInputs ==
    [c : BOOLEAN, cfile : BOOLEAN,
     m : BOOLEAN, file_mapfile : BOOLEAN,
     u : BOOLEAN, file_consumer : BOOLEAN,
     f : BOOLEAN, file_producer : BOOLEAN,
     b : BOOLEAN, file_broker : BOOLEAN, confluent : BOOLEAN,
     p : {"none", "0"}, file_partition : {"none", "1", NotANumber},
     o : {"none", "end", "beginning", "stored", "1", NotANumber},
     file_timeout : {"none", "1", NotANumber},
     sw : {"none", NotANumber} \cup NumTexts,
     ne : {"none", NotANumber} \cup NumTexts,
     rows : MapFiles,
     x : BOOLEAN]

\* a map file of one edge at the origin
PlainRows == <<[kind |-> "edge", at |-> 0]>>

\* the members configure() assigns, as the constructor leaves them
\* (ppm.cpp:86-113); conf_servers is bootstrap.servers of conf, of which
\* metadata.broker.list is an alias
NullQuad == [null |-> TRUE, sw |-> 0, ne |-> 0, entities |-> <<>>]

Constructed ==
    [outcome |-> "running", mapfile |-> "", qptr |-> NullQuad,
     conf_servers |-> "", partition |-> PARTITION_UA,
     offset |-> OFFSET_BEGINNING, exit_eof |-> TRUE,
     consumed_topic |-> "", published_topic |-> "",
     consumer_timeout |-> ConsumerTimeoutInit]

\* ------------------------------------------------------------ conversions
\* std::stoi, std::stod: the number a text denotes; std::invalid_argument
\* when it denotes none
Denotes(t) == CHOOSE i \in 0..MaxCoord : ToString(i) = t

stoi(t) ==
    IF t \in NumTexts THEN [threw |-> FALSE, val |-> Denotes(t)]
    ELSE [threw |-> TRUE, val |-> 0]

stod(t) == stoi(t)

\* strtoll(s, NULL, 10): 0 when no conversion can be made; never throws
strtoll(t) == IF t \in NumTexts THEN Denotes(t) ELSE 0

\* ------------------------------------------------------------ geofence
\* shapes::CSVInputFactory: the shapes of one kind, in the order of their
\* lines; each shape remembers its line
Shapes(rows, kind) ==
    LET numbered == [i \in 1..Len(rows) |->
                       [line |-> i, kind |-> rows[i].kind, at |-> rows[i].at]]
        OfKind(e) == e.kind = kind
    IN  SelectSeq(numbered, OfKind)

\* make_shapes fails the load on a malformed line
make_shapes_throws(rows) ==
    \E i \in 1..Len(rows) : rows[i].kind = "malformed"

\* the bounding box of a shape meets the bounds of the quad
Intersects(e, q) == q.sw <= e.at /\ e.at <= q.ne

\* Quad::insert: a shape that does not meet the bounds is not stored
Quad_insert(q, e) ==
    IF Intersects(e, q)
    THEN [q EXCEPT !.entities = Append(@, e)]
    ELSE q

RECURSIVE InsertAll(_, _)
InsertAll(q, es) ==
    IF es = <<>> THEN q
    ELSE InsertAll(Quad_insert(q, Head(es)), Tail(es))

\* the grids of the map file are left out of the quad
BuildGeofence_NoGrids(o) ==
    LET sw == IF o.sw = "none" THEN [threw |-> FALSE, val |-> 0]
              ELSE stod(o.sw)
        ne == IF o.ne = "none" THEN [threw |-> FALSE, val |-> 0]
              ELSE stod(o.ne)
        q0 == [null |-> FALSE, sw |-> sw.val, ne |-> ne.val,
               entities |-> <<>>]
        q1 == InsertAll(q0, Shapes(o.rows, "circle"))
        q2 == InsertAll(q1, Shapes(o.rows, "edge"))
    IN  IF sw.threw \/ ne.threw \/ make_shapes_throws(o.rows)
        THEN [threw |-> TRUE, qptr |-> NullQuad]
        ELSE [threw |-> FALSE, qptr |-> q2]

\* the edges are inserted before the circles
BuildGeofence_EdgesFirst(o) ==
    LET sw == IF o.sw = "none" THEN [threw |-> FALSE, val |-> 0]
              ELSE stod(o.sw)
        ne == IF o.ne = "none" THEN [threw |-> FALSE, val |-> 0]
              ELSE stod(o.ne)
        q0 == [null |-> FALSE, sw |-> sw.val, ne |-> ne.val,
               entities |-> <<>>]
        q1 == InsertAll(q0, Shapes(o.rows, "edge"))
        q2 == InsertAll(q1, Shapes(o.rows, "circle"))
        q3 == InsertAll(q2, Shapes(o.rows, "grid"))
    IN  IF sw.threw \/ ne.threw \/ make_shapes_throws(o.rows)
        THEN [threw |-> TRUE, qptr |-> NullQuad]
        ELSE [threw |-> FALSE, qptr |-> q3]

\* ppm.cpp:554-602.  A geofence key that is absent leaves the coordinate of
\* the default-constructed point; the circles are inserted first, then the
\* edges, then the grids.
BuildGeofence(o) ==
    LET sw == IF o.sw = "none" THEN [threw |-> FALSE, val |-> 0]
              ELSE stod(o.sw)
        ne == IF o.ne = "none" THEN [threw |-> FALSE, val |-> 0]
              ELSE stod(o.ne)
        q0 == [null |-> FALSE, sw |-> sw.val, ne |-> ne.val,
               entities |-> <<>>]
        q1 == InsertAll(q0, Shapes(o.rows, "circle"))
        q2 == InsertAll(q1, Shapes(o.rows, "edge"))
        q3 == InsertAll(q2, Shapes(o.rows, "grid"))
    IN  IF sw.threw \/ ne.threw \/ make_shapes_throws(o.rows)
        THEN [threw |-> TRUE, qptr |-> NullQuad]
        ELSE [threw |-> FALSE, qptr |-> q3]

\* ------------------------------------------------------------ quadtree
\* The quad with its nodes (spec.md 4.2).  A point is [lat, lon], a bounds
\* is [sw, ne]; a shape is known by the line that made it and is as large
\* as its bounding box.  A node is named by the path of quadrants that
\* leads to it from the root: 1 = NW, 2 = NE, 3 = SW, 4 = SE.
QuadPoints == [lat : 0..(QuadWidth + 1), lon : 0..(QuadWidth + 1)]

RootBounds ==
    [sw |-> [lat |-> 0, lon |-> 0],
     ne |-> [lat |-> QuadWidth, lon |-> QuadWidth]]

\* the shapes a map file can hold here: squares of side 1, some of them
\* sticking out of the root
QuadBoxes ==
    {b \in [sw : QuadPoints, ne : QuadPoints] :
        /\ b.ne.lat - b.sw.lat = 1
        /\ b.ne.lon - b.sw.lon = 1}

PointIn(p, b) ==
    /\ b.sw.lat <= p.lat /\ p.lat <= b.ne.lat
    /\ b.sw.lon <= p.lon /\ p.lon <= b.ne.lon

\* bounds overlap, borders included
BoxIntersects(a, b) ==
    /\ a.sw.lat <= b.ne.lat /\ b.sw.lat <= a.ne.lat
    /\ a.sw.lon <= b.ne.lon /\ b.sw.lon <= a.ne.lon

\* Entity::contains
Contains(e, p) == PointIn(p, e.box)

\* the four quadrants of a bounds
Quadrant(b, i) ==
    LET mlat == (b.sw.lat + b.ne.lat) \div 2
        mlon == (b.sw.lon + b.ne.lon) \div 2
    IN  CASE i = 1 -> [sw |-> [lat |-> mlat, lon |-> b.sw.lon],
                       ne |-> [lat |-> b.ne.lat, lon |-> mlon]]
          [] i = 2 -> [sw |-> [lat |-> mlat, lon |-> mlon],
                       ne |-> b.ne]
          [] i = 3 -> [sw |-> b.sw,
                       ne |-> [lat |-> mlat, lon |-> mlon]]
          [] OTHER -> [sw |-> [lat |-> b.sw.lat, lon |-> mlon],
                       ne |-> [lat |-> mlat, lon |-> b.ne.lon]]

RECURSIVE NodeBounds(_)
NodeBounds(path) ==
    IF path = <<>> THEN RootBounds
    ELSE Quadrant(NodeBounds(SubSeq(path, 1, Len(path) - 1)),
                  path[Len(path)])

\* the quad of make_shared<Quad>(sw, ne): one leaf without shapes
EmptyTree == [path \in {<<>>} |-> [leaf |-> TRUE, entities |-> <<>>]]

NoProbe == [asked |-> FALSE, p |-> [lat |-> 0, lon |-> 0], found |-> {}]

\* the four children of a node
Kids(path) == {Append(path, i) : i \in 1..4}

\* the shapes of a node that meet the bounds of its child q
Moved(t, q) ==
    LET Meets(e) == BoxIntersects(e.box, NodeBounds(q))
    IN  SelectSeq(t[SubSeq(q, 1, Len(q) - 1)].entities, Meets)

\* a shape that reaches a full leaf above the depth limit is dropped
\* instead of splitting the leaf
InsertAt_DropsWhenFull(e, w) ==
    LET t == w.tree
        hit == {q \in w.todo : BoxIntersects(e.box, NodeBounds(q))}
        append == {q \in hit : t[q].leaf /\ (Len(t[q].entities) < K_leaf
                                               \/ Len(q) = D_max)}
        inner == {q \in hit : ~t[q].leaf}
    IN  [tree |-> [q \in DOMAIN t |->
                     IF q \in append
                     THEN [leaf |-> TRUE, entities |-> Append(t[q].entities, e)]
                     ELSE t[q]],
         todo |-> UNION {Kids(q) : q \in inner}]

\* insert at the nodes of one depth that the recursion calls it on (the
\* nodes are different, so the calls do not touch each other):
\* step 1, the nodes the shape does not meet are left alone;
\* step 2, a leaf with room, or at the depth limit, takes the shape;
\* step 3, a full leaf is split, its shapes go to the children they meet
\*         and it keeps none; insert goes on at the four children of every
\*         node that was split or already had children.
InsertAt(e, w) ==
    LET t == w.tree
        hit == {q \in w.todo : BoxIntersects(e.box, NodeBounds(q))}
        append == {q \in hit : t[q].leaf /\ (Len(t[q].entities) < K_leaf
                                               \/ Len(q) = D_max)}
        split == {q \in hit \ append : t[q].leaf}
        born == UNION {Kids(q) : q \in split}
    IN  [tree |-> [q \in DOMAIN t \cup born |->
                     IF q \in append
                     THEN [leaf |-> TRUE, entities |-> Append(t[q].entities, e)]
                     ELSE IF q \in split
                     THEN [leaf |-> FALSE, entities |-> <<>>]
                     ELSE IF q \in born
                     THEN [leaf |-> TRUE, entities |-> Moved(t, q)]
                     ELSE t[q]],
         todo |-> UNION {Kids(q) : q \in hit \ append}]

\* insert from depth d down, for each of the states of the insertion in
\* `before`
RECURSIVE Visits(_, _, _)
Visits(d, e, before) ==
    IF d > D_max THEN before
    ELSE Visits(d + 1, e, {InsertAt(e, w) : w \in before})

\* Quad::insert on the root
insert(t, e) ==
    LET done == CHOOSE w \in Visits(0, e, {[tree |-> t, todo |-> {<<>>}]}) :
                    TRUE
    IN  done.tree

\* query, step 3: the quadrant of lowest index whose bounds hold the point
ChildFor(path, p) ==
    CHOOSE i \in 1..4 :
        /\ PointIn(p, Quadrant(NodeBounds(path), i))
        /\ \A j \in 1..(i - 1) : ~PointIn(p, Quadrant(NodeBounds(path), j))

RECURSIVE LeafFor(_, _, _)
LeafFor(t, path, p) ==
    IF t[path].leaf THEN path
    ELSE LeafFor(t, Append(path, ChildFor(path, p)), p)

\* query_point on the root: the lines of the shapes found
query_point(t, p) ==
    IF ~PointIn(p, RootBounds) THEN {}
    ELSE LET held == t[LeafFor(t, <<>>, p)].entities
         IN  {held[j].line : j \in {k \in 1..Len(held) : Contains(held[k], p)}}

\* BuildGeofence puts one more shape of the map file into the quad; no
\* query has been made yet (the quad is built before the first message)
QuadInsert ==
    /\ ~probe.asked
    /\ Len(shapes) < MaxShapes
    /\ \E b \in QuadBoxes :
         LET e == [line |-> Len(shapes) + 1, box |-> b]
         IN  /\ tree' = insert(tree, e)
             /\ shapes' = Append(shapes, e)
    /\ UNCHANGED <<pc, flags, eofstate, counters, handles, msg, exit_code,
                   summary, opts, settings, env, eof_parts, subscribed,
                   created, started, signalled, last_result, consumed,
                   produced, produce_errors, lost_bytes, probe>>

\* the position of a message is looked up in the quad
QuadQuery ==
    /\ \E p \in QuadPoints :
         probe' = [asked |-> TRUE, p |-> p, found |-> query_point(tree, p)]
    /\ UNCHANGED <<pc, flags, eofstate, counters, handles, msg, exit_code,
                   summary, opts, settings, env, eof_parts, subscribed,
                   created, started, signalled, last_result, consumed,
                   produced, produce_errors, lost_bytes, tree, shapes>>

\* ------------------------------------------------------------ configure
\* The statements of configure() in the order of the code; each takes the
\* members as they are and gives them back, with outcome "false" when the
\* code returns false and "throws" when it throws.
\* ppm.cpp:277-281
step_c(o, s) ==
    IF ~o.c THEN [s EXCEPT !.outcome = "false"] ELSE s

\* ppm.cpp:283-324: the file is opened and read; a broker key of the file
\* is set in conf
step_file(o, s) ==
    IF ~o.cfile THEN [s EXCEPT !.outcome = "false"]
    ELSE IF o.file_broker THEN [s EXCEPT !.conf_servers = "file"]
    ELSE s

\* ppm.cpp:328-343
step_mapfile(o, s) ==
    IF o.m THEN [s EXCEPT !.mapfile = "cli"]
    ELSE IF o.file_mapfile THEN [s EXCEPT !.mapfile = "file"]
    ELSE [s EXCEPT !.outcome = "false"]

\* ppm.cpp:347
step_geofence(o, s) ==
    LET g == BuildGeofence(o)
    IN  IF g.threw THEN [s EXCEPT !.outcome = "throws"]
        ELSE [s EXCEPT !.qptr = g.qptr]

\* ppm.cpp:349-353
step_b(o, s) ==
    IF o.b THEN [s EXCEPT !.conf_servers = "cli"] ELSE s

\* ppm.cpp:355-364
step_partition(o, s) ==
    IF o.p # "none" THEN [s EXCEPT !.partition = stoi(o.p).val]
    ELSE IF o.file_partition # "none"
    THEN LET n == stoi(o.file_partition)
         IN  IF n.threw THEN [s EXCEPT !.outcome = "throws"]
             ELSE [s EXCEPT !.partition = n.val]
    ELSE s

\* ppm.cpp:368-391
step_confluent(o, s) ==
    IF o.confluent THEN [s EXCEPT !.conf_servers = "env"] ELSE s

\* ppm.cpp:399-414
step_offset(o, s) ==
    CASE o.o = "none"      -> s
      [] o.o = "end"       -> [s EXCEPT !.offset = OFFSET_END]
      [] o.o = "beginning" -> [s EXCEPT !.offset = OFFSET_BEGINNING]
      [] o.o = "stored"    -> [s EXCEPT !.offset = OFFSET_STORED]
      [] OTHER             -> [s EXCEPT !.offset = strtoll(o.o)]

\* ppm.cpp:417
step_x(o, s) == [s EXCEPT !.exit_eof = o.x]

\* ppm.cpp:424-436
step_u(o, s) ==
    IF o.u THEN [s EXCEPT !.consumed_topic = "cli"]
    ELSE IF o.file_consumer THEN [s EXCEPT !.consumed_topic = "file"]
    ELSE [s EXCEPT !.outcome = "false"]

\* the check of the published topic is left out
step_f_Unchecked(o, s) ==
    IF o.f THEN [s EXCEPT !.published_topic = "cli"]
    ELSE IF o.file_producer THEN [s EXCEPT !.published_topic = "file"]
    ELSE s

\* ppm.cpp:440-453
step_f(o, s) ==
    IF o.f THEN [s EXCEPT !.published_topic = "cli"]
    ELSE IF o.file_producer THEN [s EXCEPT !.published_topic = "file"]
    ELSE [s EXCEPT !.outcome = "false"]

\* ppm.cpp:457-464: the exception of stoi is caught, the default is kept
step_timeout(o, s) ==
    IF o.file_timeout # "none" /\ ~stoi(o.file_timeout).threw
    THEN [s EXCEPT !.consumer_timeout = stoi(o.file_timeout).val]
    ELSE s

\* ppm.cpp:467
step_return(o, s) == [s EXCEPT !.outcome = "true"]

\* the k-th statement of configure(), executed only while configure() is
\* still running
Statement(k, o, s) ==
    IF s.outcome # "running" THEN s
    ELSE CASE k = 1  -> step_c(o, s)
           [] k = 2  -> step_file(o, s)
           [] k = 3  -> step_mapfile(o, s)
           [] k = 4  -> step_geofence(o, s)
           [] k = 5  -> step_b(o, s)
           [] k = 6  -> step_partition(o, s)
           [] k = 7  -> step_confluent(o, s)
           [] k = 8  -> step_offset(o, s)
           [] k = 9  -> step_x(o, s)
           [] k = 10 -> step_u(o, s)
           [] k = 11 -> step_f(o, s)
           [] k = 12 -> step_timeout(o, s)
           [] OTHER  -> step_return(o, s)

\* the members after the statements k, k + 1, ... of configure(), for
\* each of the member values in `before`
RECURSIVE Statements(_, _, _)
Statements(k, o, before) ==
    IF k > 13 THEN before
    ELSE Statements(k + 1, o, {Statement(k, o, s) : s \in before})

\* ppm.cpp:245-468: the members when configure() has ended
configure(o) == CHOOSE s \in Statements(1, o, {Constructed}) : TRUE

\* the inputs of a run of the whole program: every way in which a required
\* setting is missing, and, with nothing missing, the three required
\* settings given on the command line; nothing optional is given
RunInputs ==
    {o \in [c : BOOLEAN, cfile : BOOLEAN,
            m : BOOLEAN, file_mapfile : BOOLEAN,
            u : BOOLEAN, file_consumer : BOOLEAN,
            f : BOOLEAN, file_producer : BOOLEAN,
            b : {FALSE}, file_broker : {FALSE}, confluent : {FALSE},
            p : {"none"}, file_partition : {"none"}, o : {"none"},
            file_timeout : {"none"}, sw : {"none"}, ne : {"none"},
            rows : {PlainRows}, x : BOOLEAN] :
        configure(o).outcome = "true" =>
            ~o.file_mapfile /\ ~o.file_consumer /\ ~o.file_producer}

\* the inputs of configure() alone: every combination of the options, keys
\* and environment over one map file
ResolverInputs ==
    [c : BOOLEAN, cfile : BOOLEAN,
     m : BOOLEAN, file_mapfile : BOOLEAN,
     u : BOOLEAN, file_consumer : BOOLEAN,
     f : BOOLEAN, file_producer : BOOLEAN,
     b : BOOLEAN, file_broker : BOOLEAN, confluent : BOOLEAN,
     p : {"none", "0"}, file_partition : {"none", "1", NotANumber},
     o : {"none", "end", "beginning", "stored", "1", NotANumber},
     file_timeout : {"none", "1", NotANumber},
     sw : {"none"}, ne : {"none"}, rows : {PlainRows}, x : BOOLEAN]

\* the inputs of BuildGeofence: every map file and every pair of bounds,
\* with the required settings given on the command line
GeofenceInputs ==
    [c : {TRUE}, cfile : {TRUE},
     m : {TRUE}, file_mapfile : {FALSE},
     u : {TRUE}, file_consumer : {FALSE},
     f : {TRUE}, file_producer : {FALSE},
     b : {FALSE}, file_broker : {FALSE}, confluent : {FALSE},
     p : {"none"}, file_partition : {"none"}, o : {"none"},
     file_timeout : {"none"},
     sw : {"none", NotANumber} \cup NumTexts,
     ne : {"none", NotANumber} \cup NumTexts,
     rows : MapFiles, x : {FALSE}]

\* the object after construction (ppm.cpp:86-113), before operator() runs
Constructor(inputs, brokers, parts) ==

    /\ pc = "configure"
    /\ bootstrap = TRUE
    /\ bsms_available = TRUE
    /\ exit_eof = TRUE
    /\ eof_cnt = 0
    /\ partition_cnt = PartitionCntInit
    /\ bsm_recv_count = 0 /\ bsm_send_count = 0 /\ bsm_filt_count = 0
    /\ bsm_recv_bytes = 0 /\ bsm_send_bytes = 0 /\ bsm_filt_bytes = 0
    /\ consumer = FALSE /\ producer = FALSE /\ filtered_topic = FALSE
    /\ msg = NoMsg
    /\ exit_code = -1
    /\ summary = FALSE
    /\ opts \in inputs
    /\ qptr = Constructed.qptr
    /\ conf_servers = Constructed.conf_servers
    /\ partition = Constructed.partition
    /\ offset = Constructed.offset
    /\ consumed_topic = Constructed.consumed_topic
    /\ published_topic = Constructed.published_topic
    /\ consumer_timeout = Constructed.consumer_timeout
    /\ broker \in brokers
    /\ nparts \in parts
    /\ eof_parts = {}
    /\ subscribed = FALSE
    /\ created = {}
    /\ started = <<>>
    /\ signalled = FALSE
    /\ last_result = "none"
    /\ consumed = <<>>
    /\ produced = <<>>
    /\ produce_errors = 0
    /\ lost_bytes = 0
    /\ tree = EmptyTree
    /\ shapes = <<>>
    /\ probe = NoProbe

Init == Constructor(RunInputs, {"up", "down"}, 1..MaxPartitions)

\* ------------------------------------------------------------ sigterm
\* the handler also starts the statistics afresh
sigterm_ClearsCounters ==
    /\ exit_code = -1
    /\ bsms_available' = FALSE
    /\ bootstrap' = FALSE
    /\ signalled' = TRUE
    /\ bsm_recv_count' = 0 /\ bsm_send_count' = 0 /\ bsm_filt_count' = 0
    /\ bsm_recv_bytes' = 0 /\ bsm_send_bytes' = 0 /\ bsm_filt_bytes' = 0
    /\ UNCHANGED <<pc, eofstate, handles, msg, exit_code, summary,
                   opts, settings, quadvars, env, eof_parts, subscribed,
                   created, started, last_result, consumed, produced,
                   produce_errors, lost_bytes>>

\* ppm.cpp:80-83.  Installed for SIGINT and SIGTERM at the top of
\* operator(); runs asynchronously between any two steps of the runner.
sigterm ==
    /\ exit_code = -1
    /\ bsms_available' = FALSE
    /\ bootstrap' = FALSE
    /\ signalled' = TRUE
    /\ UNCHANGED <<pc, eofstate, counters, handles, msg, exit_code, summary,
                   opts, settings, quadvars, env, eof_parts, subscribed, created, started, last_result,
                   consumed, produced, produce_errors, lost_bytes>>

\* ------------------------------------------------------------ environment
\* The broker becomes unreachable or loses the topic, or comes back.
BrokerChange ==
    /\ exit_code = -1
    /\ broker' \in {"up", "down"} \ {broker}
    /\ UNCHANGED <<pc, flags, eofstate, counters, handles, msg, exit_code,
                   summary, opts, settings, quadvars, nparts, eof_parts, subscribed, created, started, signalled,
                   last_result, consumed, produced,
                   produce_errors, lost_bytes>>

\* ppm.cpp:775-785: configure() returning false and configure() throwing
\* both end the run with EXIT_FAILURE.
Configure ==
    /\ pc = "configure"
    /\ LET s == configure(opts)
       IN  /\ exit_eof' = s.exit_eof
           /\ qptr' = s.qptr
           /\ conf_servers' = s.conf_servers
           /\ partition' = s.partition
           /\ offset' = s.offset
           /\ consumed_topic' = s.consumed_topic
           /\ published_topic' = s.published_topic
           /\ consumer_timeout' = s.consumer_timeout
           /\ IF s.outcome = "true"
              THEN /\ pc' = "outer"
                   /\ exit_code' = exit_code
              ELSE /\ pc' = "exit"
                   /\ exit_code' = EXIT_FAILURE
    /\ UNCHANGED <<flags, eof_cnt, partition_cnt, counters, handles, msg,
                   summary, opts, quadvars, env, eof_parts, subscribed, created,
                   started, signalled, last_result, consumed, produced,
                   produce_errors, lost_bytes>>

\* ------------------------------------------------------------ outer loop
\* ppm.cpp:787  while (bootstrap) holds: another bootstrap pass.
OuterCheck ==
    /\ pc = "outer"
    /\ bootstrap
    /\ pc' = "reset"
    /\ UNCHANGED <<flags, eofstate, counters, handles, msg, exit_code,
                   summary, opts, settings, quadvars, env, eof_parts, subscribed, created, started, signalled,
                   last_result, consumed, produced, produce_errors, lost_bytes>>

\* the run ends without the three counter lines
Summary_Silent ==
    /\ pc = "outer"
    /\ ~bootstrap
    /\ summary' = summary
    /\ exit_code' = EXIT_SUCCESS
    /\ pc' = "exit"
    /\ UNCHANGED <<flags, eofstate, counters, handles, msg, opts, settings, quadvars, env,
                   eof_parts, subscribed, created, started, signalled, last_result,
                   consumed, produced, produce_errors, lost_bytes>>

\* ppm.cpp:787 and 840-844: while (bootstrap) fails; the three counter
\* lines are logged and operator() returns EXIT_SUCCESS.
Summary ==
    /\ pc = "outer"
    /\ ~bootstrap
    /\ summary' = TRUE
    /\ exit_code' = EXIT_SUCCESS
    /\ pc' = "exit"
    /\ UNCHANGED <<flags, eofstate, counters, handles, msg, opts, settings, quadvars, env,
                   eof_parts, subscribed, created, started, signalled, last_result,
                   consumed, produced, produce_errors, lost_bytes>>

\* ppm.cpp:789  bsms_available = true
ResetFlag ==
    /\ pc = "reset"
    /\ bsms_available' = TRUE
    /\ subscribed' = FALSE
    /\ created' = {}
    /\ pc' = "lc_create"
    /\ UNCHANGED <<bootstrap, eofstate, counters, handles, msg, exit_code,
                   summary, opts, settings, quadvars, env, eof_parts, started, signalled, last_result,
                   consumed, produced, produce_errors, lost_bytes>>

\* ------------------------------------------------------- launch_consumer
\* ppm.cpp:184-208: true iff the metadata call succeeds and lists the topic.
topic_available(b) == b = "up"

\* an existing consumer is taken for a failure to create one
ConsumerKept_Fails ==
    /\ pc = "lc_create"
    /\ consumer
    /\ pc' = "outer"
    /\ UNCHANGED <<flags, eofstate, counters, handles, msg, exit_code,
                   summary, opts, settings, quadvars, env, eof_parts, subscribed, created, started, signalled,
                   last_result, consumed, produced,
                   produce_errors, lost_bytes>>

\* ppm.cpp:631-638, consumer already there: nothing is created.
ConsumerKept ==
    /\ pc = "lc_create"
    /\ consumer
    /\ pc' = "lc_loop"
    /\ UNCHANGED <<flags, eofstate, counters, handles, msg, exit_code,
                   summary, opts, settings, quadvars, env, eof_parts, subscribed, created, started, signalled,
                   last_result, consumed, produced,
                   produce_errors, lost_bytes>>

\* ppm.cpp:631-633: KafkaConsumer::create succeeds.
ConsumerCreateOk ==
    /\ pc = "lc_create"
    /\ ~consumer
    /\ consumer' = TRUE
    /\ created' = created \cup {"consumer"}
    /\ pc' = "lc_loop"
    /\ UNCHANGED <<flags, eofstate, counters, producer, filtered_topic, msg,
                   exit_code, summary, opts, settings, quadvars, env, eof_parts, subscribed, started,
                   signalled, last_result, consumed, produced,
                   produce_errors, lost_bytes>>

\* ppm.cpp:634-637 and 791-795: create fails, launch_consumer returns
\* false, operator() sleeps and continues the bootstrap loop.
ConsumerCreateFail ==
    /\ pc = "lc_create"
    /\ ~consumer
    /\ broker # "up"
    /\ pc' = "outer"
    /\ UNCHANGED <<flags, eofstate, counters, handles, msg, exit_code,
                   summary, opts, settings, quadvars, env, eof_parts, subscribed, created, started, signalled,
                   last_result, consumed, produced,
                   produce_errors, lost_bytes>>

\* ppm.cpp:644 is false: the loop is left and launch_consumer returns true
\* (line 665) without having subscribed.
WaitLoopExit ==
    /\ pc = "lc_loop"
    /\ ~bsms_available
    /\ pc' = "lp"
    /\ UNCHANGED <<flags, eofstate, counters, handles, msg, exit_code,
                   summary, opts, settings, quadvars, env, eof_parts, subscribed, created, started, signalled,
                   last_result, consumed, produced,
                   produce_errors, lost_bytes>>

\* ppm.cpp:644-648 and 659-661: the flag is read, then topic_available.
WaitLoopCheck ==
    /\ pc = "lc_loop"
    /\ bsms_available
    /\ pc' = IF topic_available(broker) THEN "lc_sub" ELSE "lc_sleep"
    /\ UNCHANGED <<flags, eofstate, counters, handles, msg, exit_code,
                   summary, opts, settings, quadvars, env, eof_parts, subscribed, created, started, signalled,
                   last_result, consumed, produced,
                   produce_errors, lost_bytes>>

\* ppm.cpp:660: the 1500 ms sleep ends, back to the loop condition.
WaitLoopSleep ==
    /\ pc = "lc_sleep"
    /\ pc' = "lc_loop"
    /\ UNCHANGED <<flags, eofstate, counters, handles, msg, exit_code,
                   summary, opts, settings, quadvars, env, eof_parts, subscribed, created, started, signalled,
                   last_result, consumed, produced,
                   produce_errors, lost_bytes>>

\* ppm.cpp:649-656: subscribe succeeds; a new consuming period begins.
\* subscribe(topics) names the topic and no offset: PPM::offset is not read
\* here or anywhere else after configure(), and the consumer starts where
\* the group's committed position or auto.offset.reset puts it.
SubscribeOk ==
    /\ pc = "lc_sub"
    /\ subscribed' = TRUE
    /\ started' = IF started = <<>> THEN <<OFFSET_INVALID>> ELSE started
    /\ eof_parts' = {}
    /\ pc' = "lp"
    /\ UNCHANGED <<flags, eofstate, counters, handles, msg, exit_code,
                   summary, opts, settings, quadvars, env, created, signalled, last_result,
                   consumed, produced, produce_errors, lost_bytes>>

\* a failed subscribe ends the run instead of retrying
SubscribeFail_Exits ==
    /\ pc = "lc_sub"
    /\ broker # "up"
    /\ pc' = "exit"
    /\ exit_code' = EXIT_SUCCESS
    /\ UNCHANGED <<flags, eofstate, counters, handles, msg,
                   summary, opts, settings, quadvars, env, eof_parts, subscribed, created, started, signalled,
                   last_result, consumed, produced,
                   produce_errors, lost_bytes>>

\* ppm.cpp:651-654 and 791-795: subscribe fails, launch_consumer returns
\* false.
SubscribeFail ==
    /\ pc = "lc_sub"
    /\ broker # "up"
    /\ pc' = "outer"
    /\ UNCHANGED <<flags, eofstate, counters, handles, msg, exit_code,
                   summary, opts, settings, quadvars, env, eof_parts, subscribed, created, started, signalled,
                   last_result, consumed, produced,
                   produce_errors, lost_bytes>>

\* ------------------------------------------------------- launch_producer
\* ppm.cpp:608-614 and 797-801: Producer::create fails.
ProducerCreateFail ==
    /\ pc = "lp"
    /\ ~producer
    /\ broker # "up"
    /\ pc' = "outer"
    /\ UNCHANGED <<flags, eofstate, counters, handles, msg, exit_code,
                   summary, opts, settings, quadvars, env, eof_parts, subscribed, created, started, signalled,
                   last_result, consumed, produced,
                   produce_errors, lost_bytes>>

\* the pass goes on after launch_producer returned false
TopicCreateFail_GoesOn ==
    /\ pc = "lp"
    /\ broker # "up"
    /\ producer' = TRUE
    /\ created' = created \cup (IF producer THEN {} ELSE {"producer"})
    /\ filtered_topic' = FALSE
    /\ pc' = "handler"
    /\ UNCHANGED <<flags, eofstate, counters, consumer, msg, exit_code,
                   summary, opts, settings, quadvars, env, eof_parts,
                   subscribed, started, signalled, last_result, consumed,
                   produced, produce_errors, lost_bytes>>

\* ppm.cpp:608-621 and 797-801: the producer exists or is created, but
\* Topic::create fails; filtered_topic is left null.
TopicCreateFail ==
    /\ pc = "lp"
    /\ broker # "up"
    /\ producer' = TRUE
    /\ created' = created \cup (IF producer THEN {} ELSE {"producer"})
    /\ filtered_topic' = FALSE
    /\ pc' = "outer"
    /\ UNCHANGED <<flags, eofstate, counters, consumer, msg, exit_code,
                   summary, opts, settings, quadvars, env, eof_parts, subscribed, started, signalled,
                   last_result, consumed, produced,
                   produce_errors, lost_bytes>>

\* the topic handle of the previous pass is kept
LaunchProducerOk_KeepsTopic ==
    /\ pc = "lp"
    /\ producer' = TRUE
    /\ filtered_topic' = TRUE
    /\ created' = created \cup (IF producer THEN {} ELSE {"producer"})
    /\ pc' = "handler"
    /\ UNCHANGED <<flags, eofstate, counters, consumer, msg, exit_code,
                   summary, opts, settings, quadvars, env, eof_parts, subscribed, started, signalled,
                   last_result, consumed, produced,
                   produce_errors, lost_bytes>>

\* ppm.cpp:608-624: producer and topic handle are ready.
LaunchProducerOk ==
    /\ pc = "lp"
    /\ producer' = TRUE
    /\ filtered_topic' = TRUE
    /\ created' = created \cup (IF producer THEN {} ELSE {"producer"})
                        \cup {"topic"}
    /\ pc' = "handler"
    /\ UNCHANGED <<flags, eofstate, counters, consumer, msg, exit_code,
                   summary, opts, settings, quadvars, env, eof_parts, subscribed, started, signalled,
                   last_result, consumed, produced,
                   produce_errors, lost_bytes>>

\* ppm.cpp:804-815: the BSM handler is constructed and the consumer
\* position is logged.
MakeHandler ==
    /\ pc = "handler"
    /\ created' = created \cup {"handler"}
    /\ pc' = "inner"
    /\ UNCHANGED <<flags, eofstate, counters, handles, msg, exit_code,
                   summary, opts, settings, quadvars, env, eof_parts, subscribed, started, signalled,
                   last_result, consumed, produced,
                   produce_errors, lost_bytes>>

\* ------------------------------------------------------------ inner loop
\* the inner loop consumes before it tests the flag
InnerCheck_ConsumesFirst ==
    /\ pc = "inner"
    /\ pc' = "consume"
    /\ UNCHANGED <<flags, eofstate, counters, handles, msg, exit_code,
                   summary, opts, settings, quadvars, env, eof_parts,
                   subscribed, created, started, signalled, last_result,
                   consumed, produced, produce_errors, lost_bytes>>

\* ppm.cpp:818  while (bsms_available)
InnerCheck ==
    /\ pc = "inner"
    /\ pc' = IF bsms_available THEN "consume" ELSE "outer"
    /\ UNCHANGED <<flags, eofstate, counters, handles, msg, exit_code,
                   summary, opts, settings, quadvars, env, eof_parts, subscribed, created, started, signalled,
                   last_result, consumed, produced,
                   produce_errors, lost_bytes>>

\* ---------------------------------------------------------------- consume
\* What KafkaConsumer::consume can return, given the state of the broker:
\* the error code, the length and (for a real message) what the handler
\* will make of the payload.
ConsumeResults ==
    UNION {
      {[err |-> "TIMED_OUT", len |-> 0, verdict |-> "none"]},
      IF broker = "up" /\ Len(consumed) < MaxMsgs
      THEN [err : {"NO_ERROR"}, len : Lens, verdict : Verdicts]
      ELSE {},
      IF broker = "up" /\ eof_cnt < MaxEof /\ eof_parts # Partitions
      THEN {[err |-> "PARTITION_EOF", len |-> 0, verdict |-> "none"]}
      ELSE {},
      IF broker = "down"
      THEN [err : {"UNKNOWN_TOPIC", "UNKNOWN_PARTITION", "TRANSPORT"},
            len : {0}, verdict : {"none"}]
      ELSE {} }

\* The partitions a result can come from: a partition-EOF is reported for
\* a partition whose end has just been reached, not for one already there.
SourcePartitions(m) ==
    IF m.err = "PARTITION_EOF" THEN Partitions \ eof_parts ELSE Partitions

\* BSMHandler::process (ppm.cpp:510): true iff the BSM is retained.
process(m) == m.verdict = "retain"

\* the received bytes are not counted
OnRealMessage_NoRecvBytes(m) ==
    /\ bsm_recv_count' = bsm_recv_count + 1
    /\ bsm_recv_bytes' = bsm_recv_bytes
    /\ IF process(m)
       THEN UNCHANGED <<bsm_filt_count, bsm_filt_bytes>>
       ELSE /\ bsm_filt_count' = bsm_filt_count + 1
            /\ bsm_filt_bytes' = bsm_filt_bytes + m.len
    /\ UNCHANGED <<bsms_available, eof_cnt>>

\* the suppressed branch forgets bsm_filt_count++
OnRealMessage_NoFiltCount(m) ==
    /\ bsm_recv_count' = bsm_recv_count + 1
    /\ bsm_recv_bytes' = bsm_recv_bytes + m.len
    /\ IF process(m)
       THEN UNCHANGED <<bsm_filt_count, bsm_filt_bytes>>
       ELSE /\ bsm_filt_count' = bsm_filt_count
            /\ bsm_filt_bytes' = bsm_filt_bytes + m.len
    /\ UNCHANGED <<bsms_available, eof_cnt>>

\* ppm.cpp:483-522, the counters of the real-message case.
OnRealMessage(m) ==
    /\ bsm_recv_count' = bsm_recv_count + 1
    /\ bsm_recv_bytes' = bsm_recv_bytes + m.len
    /\ IF process(m)
       THEN UNCHANGED <<bsm_filt_count, bsm_filt_bytes>>
       ELSE /\ bsm_filt_count' = bsm_filt_count + 1
            /\ bsm_filt_bytes' = bsm_filt_bytes + m.len
    /\ UNCHANGED <<bsms_available, eof_cnt>>

\* ppm.cpp:524-534
OnPartitionEof ==
    /\ IF exit_eof
       THEN /\ eof_cnt' = eof_cnt + 1
            /\ bsms_available' =
                 IF eof_cnt + 1 = partition_cnt THEN FALSE
                 ELSE bsms_available
       ELSE UNCHANGED <<eof_cnt, bsms_available>>
    /\ UNCHANGED <<bsm_recv_count, bsm_recv_bytes, bsm_filt_count,
                   bsm_filt_bytes>>

\* the unknown-topic case only logs
OnUnknown_KeepsFlag ==
    UNCHANGED <<bsms_available, eof_cnt, bsm_recv_count, bsm_recv_bytes,
                bsm_filt_count, bsm_filt_bytes>>

\* ppm.cpp:536-544
OnUnknown ==
    /\ bsms_available' = FALSE
    /\ UNCHANGED <<eof_cnt, bsm_recv_count, bsm_recv_bytes, bsm_filt_count,
                   bsm_filt_bytes>>

\* ppm.cpp:546-548
OnOtherError ==
    /\ bsms_available' = FALSE
    /\ UNCHANGED <<eof_cnt, bsm_recv_count, bsm_recv_bytes, bsm_filt_count,
                   bsm_filt_bytes>>

\* a timeout is taken for the end of the stream
OnTimeout_ClearsFlag ==
    /\ bsms_available' = FALSE
    /\ UNCHANGED <<eof_cnt, bsm_recv_count, bsm_recv_bytes, bsm_filt_count,
                   bsm_filt_bytes>>

\* ppm.cpp:479-481
OnTimeout ==
    UNCHANGED <<bsms_available, eof_cnt, bsm_recv_count, bsm_recv_bytes,
                bsm_filt_count, bsm_filt_bytes>>

\* ppm.cpp:470-552: the switch on message->err()
msg_consume(m) ==
    CASE m.err = "TIMED_OUT" -> OnTimeout
      [] m.err = "NO_ERROR" -> OnRealMessage(m)
      [] m.err = "PARTITION_EOF" -> OnPartitionEof
      [] m.err \in {"UNKNOWN_TOPIC", "UNKNOWN_PARTITION"} -> OnUnknown
      [] OTHER -> OnOtherError

\* the retained branch falls through to "return false"
msg_consume_ret_Never(m) == FALSE

\* the result of handler.process is ignored for a real message
msg_consume_ret_Always(m) == m.err = "NO_ERROR"

\* ppm.cpp:513 and 551: the value msg_consume returns
msg_consume_ret(m) == m.err = "NO_ERROR" /\ process(m)

ResultKind(m) ==
    CASE m.err = "TIMED_OUT" -> "timeout"
      [] m.err = "NO_ERROR" -> "msg"
      [] m.err = "PARTITION_EOF" -> "eof"
      [] m.err \in {"UNKNOWN_TOPIC", "UNKNOWN_PARTITION"} -> "unknown"
      [] OTHER -> "error"

\* the partitions at their end after the result m from partition p
EofPartsAfter(m, p) ==
    CASE m.err = "NO_ERROR" -> eof_parts \ {p}
      [] m.err = "PARTITION_EOF" -> eof_parts \cup {p}
      [] OTHER -> eof_parts

\* ppm.cpp:819-821: consume, msg_consume, and the branch on its result;
\* line 836 when nothing is to be produced.
Consume ==
    /\ pc = "consume"
    /\ \E m \in ConsumeResults :
         /\ msg_consume(m)
         /\ \E p \in SourcePartitions(m) : eof_parts' = EofPartsAfter(m, p)
         /\ IF msg_consume_ret(m)
            THEN pc' = "produce" /\ msg' = m
            ELSE pc' = "inner" /\ msg' = NoMsg
         /\ last_result' = ResultKind(m)
         /\ consumed' = IF m.err = "NO_ERROR"
                        THEN Append(consumed, [retain |-> process(m)])
                        ELSE consumed
    /\ UNCHANGED <<bootstrap, exit_eof, partition_cnt, bsm_send_count,
                   bsm_send_bytes, handles, exit_code, summary, opts, settings, quadvars, env,
                   subscribed, created, started, signalled, produced, produce_errors, lost_bytes>>

\* a retained message is put in front of the output already made
ProduceOk_Reorders ==
    /\ pc = "produce"
    /\ bsm_send_count' = bsm_send_count + 1
    /\ bsm_send_bytes' = bsm_send_bytes + msg.len
    /\ produced' = <<[idx |-> Len(consumed), status |-> "ok"]>> \o produced
    /\ msg' = NoMsg
    /\ pc' = "inner"
    /\ UNCHANGED <<flags, eofstate, bsm_recv_count, bsm_recv_bytes,
                   bsm_filt_count, bsm_filt_bytes, handles, exit_code,
                   summary, opts, settings, quadvars, env, eof_parts, subscribed, created, started, signalled,
                   last_result, consumed, produce_errors, lost_bytes>>

\* the length of the payload given to produce is counted, which is one
\* byte more than the consumed message
ProduceOk_CountsPayload ==
    /\ pc = "produce"
    /\ bsm_send_count' = bsm_send_count + 1
    /\ bsm_send_bytes' = bsm_send_bytes + msg.len + 1
    /\ produced' = Append(produced, [idx |-> Len(consumed), status |-> "ok"])
    /\ msg' = NoMsg
    /\ pc' = "inner"
    /\ UNCHANGED <<flags, eofstate, bsm_recv_count, bsm_recv_bytes,
                   bsm_filt_count, bsm_filt_bytes, handles, exit_code,
                   summary, opts, settings, quadvars, env, eof_parts,
                   subscribed, created, started, signalled, last_result,
                   consumed, produce_errors, lost_bytes>>

\* ppm.cpp:822 and 827-832: produce accepted.
ProduceOk ==
    /\ pc = "produce"
    /\ bsm_send_count' = bsm_send_count + 1
    /\ bsm_send_bytes' = bsm_send_bytes + msg.len
    /\ produced' = Append(produced, [idx |-> Len(consumed), status |-> "ok"])
    /\ msg' = NoMsg
    /\ pc' = "inner"
    /\ UNCHANGED <<flags, eofstate, bsm_recv_count, bsm_recv_bytes,
                   bsm_filt_count, bsm_filt_bytes, handles, exit_code,
                   summary, opts, settings, quadvars, env, eof_parts, subscribed, created, started, signalled,
                   last_result, consumed, produce_errors, lost_bytes>>

\* the send counters are updated whatever produce returned
ProduceFail_Counts ==
    /\ pc = "produce"
    /\ broker # "up"
    /\ bsm_send_count' = bsm_send_count + 1
    /\ bsm_send_bytes' = bsm_send_bytes + msg.len
    /\ produced' = Append(produced, [idx |-> Len(consumed), status |-> "err"])
    /\ produce_errors' = produce_errors + 1
    /\ lost_bytes' = lost_bytes + msg.len
    /\ msg' = NoMsg
    /\ pc' = "inner"
    /\ UNCHANGED <<flags, eofstate, bsm_recv_count, bsm_recv_bytes,
                   bsm_filt_count, bsm_filt_bytes, handles, exit_code,
                   summary, opts, settings, quadvars, env, eof_parts, subscribed, created, started, signalled,
                   last_result, consumed>>

\* ppm.cpp:822-825: produce returned an error; it is logged.
ProduceFail ==
    /\ pc = "produce"
    /\ broker # "up"
    /\ produced' = Append(produced, [idx |-> Len(consumed), status |-> "err"])
    /\ produce_errors' = produce_errors + 1
    /\ lost_bytes' = lost_bytes + msg.len
    /\ msg' = NoMsg
    /\ pc' = "inner"
    /\ UNCHANGED <<flags, eofstate, counters, handles, exit_code, summary,
                   opts, settings, quadvars, env, eof_parts, subscribed, created, started, signalled, last_result,
                   consumed>>

\* the steps of the runner thread
Runner ==
    \/ Configure
    \/ OuterCheck
    \/ ResetFlag
    \/ ConsumerKept
    \/ ConsumerCreateOk
    \/ ConsumerCreateFail
    \/ WaitLoopExit
    \/ WaitLoopCheck
    \/ WaitLoopSleep
    \/ SubscribeOk
    \/ SubscribeFail
    \/ ProducerCreateFail
    \/ TopicCreateFail
    \/ LaunchProducerOk
    \/ MakeHandler
    \/ InnerCheck
    \/ Consume
    \/ ProduceOk
    \/ ProduceFail
    \/ Summary

Next ==
    \/ Runner
    \/ sigterm
    \/ BrokerChange

Spec == Init /\ [][Next]_vars

\* the runner keeps its steps going for as long as one is possible
LiveSpec == Init /\ [][Next]_vars /\ WF_vars(Runner)

\* configure() alone, applied to every combination of options, keys and
\* environment
CfgInit == Constructor(ResolverInputs, {"up"}, {1})

CfgNext == Configure

CfgSpec == CfgInit /\ [][CfgNext]_vars

\* configure() alone, applied to every map file under every root bounds
GeoInit == Constructor(GeofenceInputs, {"up"}, {1})

GeoSpec == GeoInit /\ [][CfgNext]_vars

\* the quad alone: shapes are inserted, then points are looked up
QuadNext ==
    \/ QuadInsert
    \/ QuadQuery

QuadInit ==
    Constructor({o \in RunInputs : configure(o).outcome = "true" /\ ~o.x},
                {"up"}, {1})

QuadSpec == QuadInit /\ [][QuadNext]_vars

\* ------------------------------------------------------------- vocabulary
\* the runner states of the specification's state machine
Booting == pc \in {"outer", "reset", "lc_create", "lc_loop", "lc_sleep",
                   "lc_sub", "lp", "handler"}

Consuming == pc \in {"inner", "consume", "produce"}

Stopped == pc = "exit" /\ exit_code = EXIT_SUCCESS

Attempts(i) == {j \in 1..Len(produced) : produced[j].idx = i}

Accepted(i) == \E j \in Attempts(i) : produced[j].status = "ok"

\* ------------------------------------------------------------------ C1
\* C1: whenever the runner is not between msg_consume and the produce call
\* of an iteration (so at the end of every inner-loop iteration and at
\* exit), recv_count = send_count + filt_count + produce_errors.
C1_CounterConservation ==
    pc # "produce" =>
        bsm_recv_count = bsm_send_count + bsm_filt_count + produce_errors

\* an iteration has ended after one message was suppressed and the produce
\* call of another failed
C1_Witness ==
    /\ pc = "inner"
    /\ bsm_filt_count = 1
    /\ produce_errors = 1
    /\ bsm_recv_count = 2

\* ------------------------------------------------------------------ C2
\* C2: after a shutdown signal the runner drains at most the current
\* iteration: once a signal has been delivered, the next test of the inner
\* loop ends the loop and the next test of the bootstrap loop leads to the
\* summary.
C2_DrainsAtMostCurrentIteration ==
    [][ /\ (signalled /\ pc = "inner" /\ pc' # pc) => pc' = "outer"
        /\ (signalled /\ pc = "outer" /\ pc' # pc) => pc' = "exit" ]_vars

\* ------------------------------------------------------------------ C3
\* C3: with exit_eof set and a single partition, once the inner loop has
\* been left on a partition-EOF and no signal was delivered, the runner's
\* next step from the bootstrap-loop test is the summary and exit 0.
C3_EofExits ==
    [][ ( /\ pc = "outer"
          /\ exit_eof
          /\ nparts = 1
          /\ last_result = "eof"
          /\ ~signalled
          /\ pc' # pc )
        => pc' = "exit" ]_vars

\* ------------------------------------------------------------------ C4
\* C4: a failed step of launch_consumer or launch_producer leads back to
\* the bootstrap-loop test; from that test, and so also after a consume
\* error has ended the inner loop, the runner goes on to another bootstrap
\* pass unless a signal was delivered; the runner is Stopped only if a
\* signal was delivered.
C4_TransportFailuresNeverStop ==
    [][ /\ (pc \in {"lc_create", "lc_sub", "lp"} /\ pc' # pc)
             => pc' \in {"outer", "lc_loop", "lp", "handler"}
        /\ (pc = "outer" /\ pc' # pc /\ ~signalled) => pc' = "reset"
        /\ Stopped' => signalled' ]_vars

\* a consume error ended the inner loop and the runner is in a new
\* bootstrap pass, no signal delivered
C4_Witness ==
    /\ pc = "reset"
    /\ last_result = "error"
    /\ consumer
    /\ ~signalled

\* ------------------------------------------------------------------ C5
\* C5 as stated: a retained message that the runner has moved past (a
\* later message has been consumed) has had its produce call accepted.
C5_MovesOnOnlyAfterAcceptance ==
    \A i \in 1..Len(consumed) :
        (consumed[i].retain /\ i < Len(consumed)) => Accepted(i)

\* C5 amended: a retained message whose iteration is over (the runner is
\* not at its produce call any more, or a later message has been consumed)
\* has had exactly one produce call, which has returned acceptance or an
\* error; only retained messages are handed to produce, and send_count is
\* the number of accepted produce calls.
C5_MovesOnOnlyAfterProduceReturned ==
    /\ \A i \in 1..Len(consumed) :
         (consumed[i].retain /\ (i < Len(consumed) \/ pc # "produce"))
             => Cardinality(Attempts(i)) = 1
    /\ \A j \in 1..Len(produced) :
         /\ produced[j].idx \in 1..Len(consumed)
         /\ consumed[produced[j].idx].retain
    /\ bsm_send_count =
         Cardinality({j \in 1..Len(produced) : produced[j].status = "ok"})

\* the produce call of the first message failed and a later message has
\* been consumed
C5_Witness ==
    /\ Len(consumed) = 2
    /\ consumed[1].retain
    /\ Attempts(1) # {}
    /\ ~Accepted(1)

\* ------------------------------------------------------------------ C6
\* C6: a partition-EOF with exit_eof set increments eof_cnt and ends the
\* consuming period (clears bsms_available) exactly when every partition
\* of the topic is at its end in this period; with exit_eof not set it
\* changes no flag and no counter.
C6_LeavesExactlyWhenAllEof ==
    [][ (pc = "consume" /\ pc' # pc /\ last_result' = "eof"
         /\ bsms_available)
        => IF exit_eof
           THEN /\ eof_cnt' = eof_cnt + 1
                /\ (bsms_available' = FALSE) <=> (eof_parts' = Partitions)
           ELSE UNCHANGED <<flags, eof_cnt, counters>> ]_vars

\* ------------------------------------------------------------------ C7
\* C7: if the broker stays available from some point on and no signal is
\* ever delivered, then after every consume error the runner is eventually
\* at a consume call again, with a consumer that subscribed in the current
\* bootstrap pass and with a producer and topic handle.
C7_Reconnect ==
    (<>[](broker = "up") /\ []~signalled)
        => [](last_result = "error"
                => <>(pc = "consume" /\ subscribed /\ consumer
                      /\ producer /\ filtered_topic))

\* after a consume error and a new bootstrap pass the runner is at a
\* consume call again, subscribed in this pass, the broker being up
C7_Witness ==
    /\ last_result = "error"
    /\ ~signalled
    /\ pc = "consume"
    /\ subscribed
    /\ consumer /\ producer /\ filtered_topic
    /\ broker = "up"

\* ------------------------------------------------------------------ C8
\* C8: a consume result of unknown topic or unknown partition clears
\* bsms_available, changes no counter and no other flag, and leads to the
\* loop test without a produce call; when the inner loop has been left
\* after it and no signal was delivered the runner goes on to another
\* bootstrap pass, not to the summary.
C8_UnknownTopicReconnects ==
    [][ /\ (pc = "consume" /\ pc' # pc /\ last_result' = "unknown")
             => /\ bsms_available' = FALSE
                /\ bootstrap' = bootstrap
                /\ UNCHANGED counters
                /\ UNCHANGED <<produced, produce_errors, eof_cnt>>
                /\ pc' = "inner"
        /\ (pc = "inner" /\ pc' # pc /\ ~bsms_available)
             => pc' = "outer"
        /\ (pc = "outer" /\ pc' # pc /\ last_result = "unknown"
            /\ ~signalled)
             => pc' = "reset" ]_vars

\* an unknown-topic result has sent the runner into a new bootstrap pass
C8_Witness ==
    /\ pc = "reset"
    /\ last_result = "unknown"
    /\ ~signalled
    /\ bsm_recv_count > 0

\* ------------------------------------------------------------------ C9
\* C9: the step in which produce returns an error changes neither
\* send_count nor send_bytes (nor any other counter), leaves both flags as
\* they are, lets go of the message and goes to the loop test, from where
\* the next step with bsms_available set is the next consume call; no
\* message is handed to produce twice.
C9_ProduceFailureDrops ==
    [][ /\ (pc = "produce" /\ produce_errors' # produce_errors)
             => /\ UNCHANGED counters
                /\ UNCHANGED flags
                /\ msg' = NoMsg
                /\ pc' = "inner"
        /\ (pc = "inner" /\ pc' # pc /\ bsms_available) => pc' = "consume"
        /\ \A i \in 1..Len(consumed') : Cardinality(Attempts(i)') <= 1 ]_vars

\* a produce call has failed and the runner is at the next consume call
\* with bsms_available still set
C9_Witness ==
    /\ pc = "consume"
    /\ bsms_available
    /\ produce_errors > 0
    /\ produced[Len(produced)].status = "err"
    /\ produced[Len(produced)].idx = Len(consumed)
    /\ bsm_send_count = 0

\* ------------------------------------------------------------------ C10
\* C10: a produce call is made only for a message that consume returned
\* as a real message in this iteration and that the handler retained; a
\* real message with any other verdict adds 1 to filt_count and its length
\* to filt_bytes, is not produced, and the loop goes on.
C10_SuppressedNeverPublished ==
    [][ /\ (Len(produced') > Len(produced))
             => /\ pc = "produce"
                /\ last_result = "msg"
                /\ msg.err = "NO_ERROR"
                /\ msg.verdict = "retain"
                /\ consumed[Len(consumed)].retain
                /\ produced'[Len(produced')].idx = Len(consumed)
        /\ (Len(consumed') > Len(consumed)
            /\ ~consumed'[Len(consumed')].retain)
             => /\ bsm_filt_count' = bsm_filt_count + 1
                /\ bsm_filt_bytes' - bsm_filt_bytes =
                     bsm_recv_bytes' - bsm_recv_bytes
                /\ bsm_filt_bytes' - bsm_filt_bytes \in Lens
                /\ produced' = produced
                /\ pc' = "inner"
        /\ (Len(consumed') > Len(consumed)
            /\ consumed'[Len(consumed')].retain)
             => UNCHANGED <<bsm_filt_count, bsm_filt_bytes>> ]_vars

\* a suppressed message has been counted and the loop has gone on to the
\* next consume call with nothing produced
C10_Witness ==
    /\ pc = "consume"
    /\ bsm_filt_count = 1
    /\ bsm_filt_bytes = MaxLen
    /\ produced = <<>>
    /\ last_result = "msg"

\* ------------------------------------------------------------------ C11
\* C11: the messages handed to produce are, in the order of the produce
\* calls, messages that consume returned, in the order consume returned
\* them: the positions in `consumed` of the produced messages increase
\* strictly along `produced`.
C11_OutputOrder ==
    /\ \A j \in 1..Len(produced) : produced[j].idx \in 1..Len(consumed)
    /\ \A j, k \in 1..Len(produced) :
         j < k => produced[j].idx < produced[k].idx

\* two messages have been consumed and both handed to produce
C11_Witness ==
    /\ Len(consumed) = 2
    /\ Len(produced) = 2
    /\ produced[1].idx = 1
    /\ produced[2].idx = 2

\* ------------------------------------------------------------------ C12
\* C12: recv_bytes >= filt_bytes, and send_bytes <= recv_bytes +
\* d * send_count for every redaction growth d >= 0 (the counters are fed
\* with the length of the consumed message, so d = 0 already holds).
C12_ByteConservation ==
    /\ bsm_recv_bytes >= bsm_filt_bytes
    /\ \A d \in 0..MaxLen :
         bsm_send_bytes <= bsm_recv_bytes + d * bsm_send_count

\* bytes have been received, some suppressed and some sent
C12_Witness ==
    /\ bsm_filt_bytes > 0
    /\ bsm_send_bytes > 0
    /\ bsm_recv_bytes = bsm_filt_bytes + bsm_send_bytes

\* ------------------------------------------------------------------ C13
\* C13 as stated: on every path on which the runner returns an exit code,
\* the exit by a failed configure() included, the three counter lines of
\* the summary have been written before it returns.
C13_EveryExitWritesSummary ==
    pc = "exit" => summary

\* C13: the runner returns EXIT_SUCCESS or EXIT_FAILURE; the three counter
\* lines have been written when it returns EXIT_SUCCESS, and when it returns
\* EXIT_FAILURE they have not and every counter is 0.
C13_SuccessfulExitWritesSummary ==
    pc = "exit" =>
        /\ exit_code \in {EXIT_SUCCESS, EXIT_FAILURE}
        /\ summary <=> exit_code = EXIT_SUCCESS
        /\ exit_code = EXIT_FAILURE =>
             /\ bsm_recv_count = 0 /\ bsm_send_count = 0 /\ bsm_filt_count = 0
             /\ bsm_recv_bytes = 0 /\ bsm_send_bytes = 0 /\ bsm_filt_bytes = 0

\* a run that consumed a message has ended with the summary written
C13_Witness ==
    /\ pc = "exit"
    /\ exit_code = EXIT_SUCCESS
    /\ summary
    /\ bsm_recv_count > 0

\* ------------------------------------------------------------------ C14
\* a required setting is missing: no -c, a configuration file that does not
\* open, or a map file, consumed topic or published topic that neither the
\* command line nor the file gives
Missing(o) ==
    \/ ~o.c
    \/ ~o.cfile
    \/ ~o.m /\ ~o.file_mapfile
    \/ ~o.u /\ ~o.file_consumer
    \/ ~o.f /\ ~o.file_producer

\* C14: when a required setting is missing the run never gets past
\* configure(): it ends with exit code 1, no consumer, producer or topic
\* handle is ever created, no message is consumed and the counters stay 0.
C14_MissingConfigurationIsFatal ==
    Missing(opts) =>
        /\ pc \in {"configure", "exit"}
        /\ pc = "exit" => exit_code = EXIT_FAILURE
        /\ ~consumer /\ ~producer /\ ~filtered_topic
        /\ consumed = <<>> /\ produced = <<>>
        /\ bsm_recv_count = 0 /\ bsm_send_count = 0 /\ bsm_filt_count = 0
        /\ bsm_recv_bytes = 0 /\ bsm_send_bytes = 0 /\ bsm_filt_bytes = 0

\* only the published topic is missing, and the run has ended
C14_Witness ==
    /\ opts.c /\ opts.cfile /\ opts.m /\ opts.file_consumer
    /\ ~opts.f /\ ~opts.file_producer
    /\ pc = "exit"
    /\ exit_code = EXIT_FAILURE

\* ------------------------------------------------------------------ C15
\* a numeric setting holds a text that is not a number
Unparseable(o) ==
    \/ o.file_partition = NotANumber
    \/ o.file_timeout = NotANumber
    \/ o.sw = NotANumber
    \/ o.ne = NotANumber
    \/ o.o = NotANumber

\* C15: when privacy.kafka.partition, privacy.consumer.timeout.ms, a bound
\* of the geofence or the -o offset is not a number, configure() does not
\* succeed: the run ends with exit code 1.
C15_UnparseableValueIsFatal ==
    (Unparseable(opts) /\ pc # "configure") =>
        (pc = "exit" /\ exit_code = EXIT_FAILURE)

\* ------------------------------------------------------------------ C16
\* the source that wins for a setting: the command line, then the
\* environment, then the configuration file, then the default
Winner(cli, environment, file, default) ==
    IF cli THEN "cli"
    ELSE IF environment THEN "env"
    ELSE IF file THEN "file"
    ELSE default

\* C16: after configure() every setting has the value of the highest
\* source that gives it, command line over environment over file; the
\* broker address of -b is not replaced by the one of the environment.
C16_Precedence ==
    pc = "outer" =>
        /\ configure(opts).mapfile =
             Winner(opts.m, FALSE, opts.file_mapfile, "")
        /\ consumed_topic = Winner(opts.u, FALSE, opts.file_consumer, "")
        /\ published_topic = Winner(opts.f, FALSE, opts.file_producer, "")
        /\ partition = IF opts.p # "none" THEN stoi(opts.p).val
                       ELSE IF opts.file_partition # "none"
                       THEN stoi(opts.file_partition).val
                       ELSE PARTITION_UA
        /\ conf_servers =
             Winner(opts.b, opts.confluent, opts.file_broker, "")

\* ------------------------------------------------------------------ C17
\* C17: the offset configure() selected (OFFSET_BEGINNING by default) is
\* the one the consumer is given at its first subscribe.
C17_StartOffsetApplied ==
    started # <<>> => started[1] = offset

\* ------------------------------------------------------------------ C18
\* C18 as stated: a bootstrap pass that completes both launches has
\* created a new consumer, a new producer and a new topic handle.
C18_EachPassRebuilds ==
    pc = "handler" => created = {"consumer", "producer", "topic"}

\* C18: each bootstrap pass that completes both launches has created a new
\* topic handle and, unless the flag was cleared meanwhile, subscribed the
\* consumer; a consumer or a producer is created only by a pass that finds
\* none, and once created it is kept for the rest of the run.
C18_PassReusesClients ==
    [][/\ "consumer" \in created' \ created => ~consumer /\ consumer'
       /\ "producer" \in created' \ created => ~producer /\ producer'
       /\ consumer => consumer'
       /\ producer => producer'
       /\ (pc = "lp" /\ pc' = "handler") =>
             /\ "topic" \in created'
             /\ consumer' /\ producer' /\ filtered_topic'
             /\ subscribed' \/ ~bsms_available']_vars

\* a pass after a transport failure has completed both launches with the
\* consumer and the producer of the pass before
C18_Witness ==
    /\ pc = "handler"
    /\ last_result = "error"
    /\ subscribed
    /\ created = {"topic"}
    /\ consumer /\ producer

\* ------------------------------------------------------------------ C19
\* the map file was loaded: configure() went past BuildGeofence
Loaded == pc = "outer" /\ ~qptr.null

\* rank of a kind of shape in the order of the insertion loops
KindRank(k) == CASE k = "circle" -> 1 [] k = "edge" -> 2 [] OTHER -> 3

\* C19 as stated: the shapes are in the quad in the order of their lines.
C19_InsertedInFileOrder ==
    Loaded =>
        \A j, k \in 1..Len(qptr.entities) :
            j < k => qptr.entities[j].line < qptr.entities[k].line

\* C19: the shapes are in the quad by kind, circles before edges before
\* grids, and within a kind in the order of their lines.
C19_InsertedByKindThenLine ==
    Loaded =>
        \A j, k \in 1..Len(qptr.entities) :
            j < k =>
                LET a == qptr.entities[j]
                    b == qptr.entities[k]
                IN  \/ KindRank(a.kind) < KindRank(b.kind)
                    \/ a.kind = b.kind /\ a.line < b.line

\* a map file with an edge on a line before a circle was loaded, and the
\* circle is first in the quad
C19_Witness ==
    /\ Loaded
    /\ Len(qptr.entities) = 2
    /\ qptr.entities[1].kind = "circle"
    /\ qptr.entities[2].kind = "edge"
    /\ qptr.entities[2].line < qptr.entities[1].line

\* ------------------------------------------------------------------ C20
\* the lines of the shapes the quad holds
StoredLines == {qptr.entities[j].line : j \in 1..Len(qptr.entities)}

\* C20 as stated: a map file of N valid lines gives a quad of exactly N
\* distinct shapes, whatever the bounds of the root.
C20_QuadHoldsEveryRow ==
    Loaded => Cardinality(StoredLines) = Len(opts.rows)

\* C20: the quad holds, once each, exactly the shapes of the map file whose
\* bounding box meets the bounds of the root.
C20_QuadHoldsRowsInBounds ==
    Loaded =>
        /\ StoredLines =
             {i \in 1..Len(opts.rows) :
                 qptr.sw <= opts.rows[i].at /\ opts.rows[i].at <= qptr.ne}
        /\ Len(qptr.entities) = Cardinality(StoredLines)
        /\ \A j \in 1..Len(qptr.entities) :
             LET e == qptr.entities[j]
             IN  e.kind = opts.rows[e.line].kind /\ e.at = opts.rows[e.line].at

\* a map file of two lines was loaded under bounds that one of its shapes
\* meets and the other, a grid, does not; and one whose grid is stored
C20_Witness ==
    /\ Loaded
    /\ Len(opts.rows) = 2
    /\ Len(qptr.entities) = 1
    /\ \E i \in 1..2 : opts.rows[i].kind = "grid"

\* ------------------------------------------------------------------ C21
\* C21 as stated: every shape insert was called with that contains the
\* point of a query is among the shapes the query found.
C21_QueryFindsEveryContainer ==
    probe.asked =>
        \A j \in 1..Len(shapes) :
            Contains(shapes[j], probe.p) => shapes[j].line \in probe.found

\* C21: a query at a point inside the root bounds finds every shape that
\* insert was called with and that contains the point; a query at a point
\* outside the root bounds finds nothing, whatever contains the point.
C21_QueryFindsContainersInsideRoot ==
    probe.asked =>
        IF PointIn(probe.p, RootBounds)
        THEN \A j \in 1..Len(shapes) :
                Contains(shapes[j], probe.p) => shapes[j].line \in probe.found
        ELSE probe.found = {}

\* the quad was split down to the depth limit, and a query at a point on
\* the border between two quadrants found two shapes
C21_Witness ==
    /\ probe.asked
    /\ \E path \in DOMAIN tree : Len(path) = D_max
    /\ Cardinality(probe.found) = 2
    /\ probe.p.lon = (RootBounds.sw.lon + RootBounds.ne.lon) \div 2


\* C22: a consume that times out changes no counter, neither flag, nothing
\* of the end-of-partition bookkeeping and no Kafka object, makes no produce
\* call and returns to the test of the inner loop, and that test, with
\* bsms_available as the timeout left it, goes on to the next consume.
C22_TimeoutChangesNothing ==
    [][/\ (pc = "consume" /\ pc' # pc /\ last_result' = "timeout") =>
            /\ UNCHANGED <<counters, flags, eofstate, handles, msg>>
            /\ UNCHANGED <<consumed, produced, produce_errors, eof_parts>>
            /\ pc' = "inner"
       /\ (pc = "inner" /\ pc' # pc /\ last_result = "timeout"
              /\ bsms_available) =>
            pc' = "consume"]_vars

\* a second consume is about to be called after a timeout that followed a
\* real message
C22_Witness ==
    /\ pc = "consume"
    /\ last_result = "timeout"
    /\ bsms_available
    /\ bsm_recv_count > 0
    /\ bsm_recv_count = Len(consumed)

\* C23: none of the six counters ever goes down, whatever the step (any
\* consume result, any verdict, any produce outcome, a reconnect, a signal),
\* and a counter is written only by a step of the runner in msg_consume or
\* after produce, never by the signal handler, which leaves the runner
\* where it is.
C23_CountersMonotonic ==
    [][/\ bsm_recv_count' >= bsm_recv_count
       /\ bsm_recv_bytes' >= bsm_recv_bytes
       /\ bsm_send_count' >= bsm_send_count
       /\ bsm_send_bytes' >= bsm_send_bytes
       /\ bsm_filt_count' >= bsm_filt_count
       /\ bsm_filt_bytes' >= bsm_filt_bytes
       /\ counters' # counters => pc \in {"consume", "produce"} /\ pc' # pc
       /\ signalled' # signalled => UNCHANGED counters]_vars

\* a run that counted a published and a suppressed message, was signalled
\* and wrote its summary
C23_Witness ==
    /\ signalled
    /\ summary
    /\ bsm_send_count > 0 /\ bsm_send_bytes > 0
    /\ bsm_filt_count > 0 /\ bsm_filt_bytes > 0
    /\ bsm_recv_count = MaxMsgs

\* the steps of launch_consumer and launch_producer
Launching == pc \in {"lc_create", "lc_loop", "lc_sleep", "lc_sub", "lp"}

\* C24: a bootstrap pass constructs a BSM handler at one place only, after
\* launch_consumer and launch_producer both returned true in that pass, and
\* at most once; the handler lasts until the next pass begins, so every
\* message the pass consumes is processed by it; a pass that leaves a
\* launch for the top of the bootstrap loop has constructed none.
C24_HandlerLifecycle ==
    [][/\ "handler" \in created' \ created <=> (pc = "handler" /\ pc' # pc)
       /\ "handler" \in created' =>
             /\ "topic" \in created'
             /\ consumer' /\ producer' /\ filtered_topic'
             /\ subscribed' \/ ~bsms_available'
       /\ pc' \in {"inner", "consume", "produce"} => "handler" \in created'
       /\ "handler" \in created \ created' => pc = "reset"
       /\ (Launching /\ pc' = "outer") => "handler" \notin created']_vars

\* the handler of a later pass, which reuses the consumer of the pass
\* before, has processed a message that is about to be produced
C24_Witness ==
    /\ pc = "produce"
    /\ "handler" \in created
    /\ "consumer" \notin created
    /\ produce_errors = 0
    /\ Len(consumed) = 1
    /\ broker = "up"
    /\ last_result = "msg"

\* C25: whenever the inner loop calls consume (and until the message it
\* returned is produced) a consumer exists that subscribed in the current
\* bootstrap pass, and a producer and a topic handle exist; a pass whose
\* launch_consumer returned true without subscribing has bsms_available
\* cleared, so its inner loop ends before any consume.
C25_ConsumeNeedsTransport ==
    /\ pc \in {"consume", "produce"} =>
          consumer /\ subscribed /\ producer /\ filtered_topic
    /\ (pc \in {"lp", "handler", "inner"} /\ ~subscribed) => ~bsms_available

\* a pass that did not subscribe has built its handler and stands at the
\* test of the inner loop, after an earlier pass consumed a message
C25_Witness ==
    /\ pc = "inner"
    /\ ~subscribed
    /\ "handler" \in created
    /\ "topic" \in created
    /\ Len(consumed) > 0

\* C26: send_bytes grows by the length of the consumed message, so whenever
\* the runner is not between msg_consume and the produce call of an
\* iteration (at the end of every inner-loop iteration and at exit)
\* recv_bytes = send_bytes + filt_bytes + the lengths of the retained
\* messages whose produce failed; between the two the message in hand is
\* the difference; and send_bytes + filt_bytes <= recv_bytes always.
C26_ExactByteAccounting ==
    /\ pc # "produce" =>
          bsm_recv_bytes = bsm_send_bytes + bsm_filt_bytes + lost_bytes
    /\ pc = "produce" =>
          bsm_recv_bytes = bsm_send_bytes + bsm_filt_bytes + lost_bytes
                             + msg.len
    /\ bsm_send_bytes + bsm_filt_bytes <= bsm_recv_bytes

\* an iteration has ended after a long message was published and the
\* produce call of a short one failed
C26_Witness ==
    /\ pc = "inner"
    /\ bsm_send_bytes = MaxLen
    /\ lost_bytes = 1
    /\ bsm_filt_bytes = 0
    /\ bsm_recv_bytes = MaxLen + 1

====
